---- MODULE Spec2Model ----
(***************************************************************************)
(* femto-fsrs: the FSRS-4.5 scheduling engine of src/index.ts and its      *)
(* smoke test src/test.ts.                                                 *)
(*                                                                         *)
(* JavaScript numbers are modelled as fixed-point decimals with six        *)
(* fractional digits: the number x is the integer x * SCALE, every         *)
(* operation rounding its exact result to the nearest representable value. *)
(* Math.exp and Math.pow are computed (series for exp and ln), not         *)
(* assumed, so an identity between reals holds here only up to the         *)
(* rounding of the arithmetic, as it does in the double arithmetic of the  *)
(* program.                                                                *)
(***************************************************************************)
EXTENDS Integers, Sequences, FiniteSets, TLC

\* ------------------------------------------------------------------------
\* Numbers
\* ------------------------------------------------------------------------

\* One unit in the last place is 1 / SCALE.
SCALE == 10^6

\* Half of SCALE, added before a division to round to nearest.
HALF == SCALE \div 2

\* The JavaScript values that are not finite numbers. `undefined` is what
\* an array read outside its bounds yields; NaN is what arithmetic on it
\* yields.
NaN == 0 - 2^30

Undefined == 0 - 2^30 - 1

IsNum(x) == x # NaN /\ x # Undefined

Abs(x) == IF x < 0 THEN 0 - x ELSE x

Sgn(x) == IF x < 0 THEN 0 - 1 ELSE 1

\* a * b for a, b >= 0, without an intermediate above 2^31: both factors
\* are split at three decimal digits.
MulU(a, b) ==
  LET a1 == a \div 1000
      a0 == a % 1000
      b1 == b \div 1000
      b0 == b % 1000
      p  == a1 * b0
      q  == a0 * b1
  IN  a1 * b1 + (p \div 1000) + (q \div 1000)
        + ((((p % 1000) + (q % 1000)) * 1000 + a0 * b0 + HALF) \div SCALE)

\* The `*` operator of the program.
Mul(a, b) ==
  IF ~IsNum(a) \/ ~IsNum(b) THEN NaN
  ELSE Sgn(a) * Sgn(b) * MulU(Abs(a), Abs(b))

\* k further decimal digits of r / b, for 0 <= r < b.
RECURSIVE DivDigits(_, _, _, _)
DivDigits(r, b, k, acc) ==
  IF k = 0 THEN (IF 2 * r >= b THEN acc + 1 ELSE acc)
  ELSE DivDigits((r * 10) % b, b, k - 1, acc * 10 + ((r * 10) \div b))

\* a / b for a >= 0, b > 0. A divisor too wide for the digit loop is
\* shortened together with the dividend.
RECURSIVE DivU(_, _)
DivU(a, b) ==
  IF b > 2 * 10^8 THEN DivU(a \div 16, b \div 16)
  ELSE (a \div b) * SCALE + DivDigits(a % b, b, 6, 0)

\* The `/` operator of the program (no reachable call divides by zero).
Div(a, b) ==
  IF ~IsNum(a) \/ ~IsNum(b) THEN NaN
  ELSE Sgn(a) * Sgn(b) * DivU(Abs(a), Abs(b))

\* The `+` and `-` operators of the program.
Add(a, b) == IF ~IsNum(a) \/ ~IsNum(b) THEN NaN ELSE a + b

Sub(a, b) == IF ~IsNum(a) \/ ~IsNum(b) THEN NaN ELSE a - b

\* Math.max and Math.min: NaN if either argument is.
MathMax(a, b) ==
  IF ~IsNum(a) \/ ~IsNum(b) THEN NaN ELSE IF a >= b THEN a ELSE b

MathMin(a, b) ==
  IF ~IsNum(a) \/ ~IsNum(b) THEN NaN ELSE IF a <= b THEN a ELSE b

\* x / n rounded to nearest, for an integer n > 0 and x >= 0.
DivInt(x, n) == (x + (n \div 2)) \div n

\* Sum of the series x^n / n! from the term `term` (= x^(n-1)/(n-1)!) on.
RECURSIVE ExpSeries(_, _, _)
ExpSeries(x, term, n) ==
  IF term = 0 THEN 0
  ELSE term + ExpSeries(x, DivInt(MulU(term, x), n), n + 1)

\* Math.exp.
RECURSIVE Exp(_)
Exp(x) ==
  IF ~IsNum(x) THEN NaN
  ELSE IF x < 0 THEN DivU(SCALE, Exp(0 - x))
  ELSE ExpSeries(x, SCALE, 1)

\* ln 2 = 0.693147 to six decimals.
LN2 == 693147 * (SCALE \div 10^6)

\* z + z^3/3 + z^5/5 + ... from the term z^k / k on, zk = z^k >= 0.
RECURSIVE AtanhSeries(_, _, _)
AtanhSeries(zz, zk, k) ==
  IF zk = 0 THEN 0
  ELSE DivInt(zk, k) + AtanhSeries(zz, MulU(zk, zz), k + 2)

\* ln m for m near 1: 2 * atanh((m - 1) / (m + 1)).
LnNear1(m) ==
  LET z == Div(m - SCALE, m + SCALE)
      s == AtanhSeries(MulU(Abs(z), Abs(z)), Abs(z), 1)
  IN  Sgn(z) * 2 * s

\* Math.log for x > 0: halve or double x into [3/4, 3/2], count the steps.
RECURSIVE Ln(_)
Ln(x) ==
  IF 2 * x > 3 * SCALE THEN Ln(DivInt(x, 2)) + LN2
  ELSE IF 4 * x < 3 * SCALE THEN Ln(2 * x) - LN2
  ELSE LnNear1(x)

\* Newton's iteration for the square root of x > 0, from a guess r above it.
RECURSIVE SqrtFrom(_, _)
SqrtFrom(x, r) ==
  LET r2 == (r + DivU(x, r)) \div 2
  IN  IF r2 >= r THEN r ELSE SqrtFrom(x, r2)

\* Math.sqrt for x > 0, to the nearest unit in the last place.
Sqrt(x) ==
  LET r == SqrtFrom(x, IF x > SCALE THEN x ELSE SCALE)
  IN  IF Abs(MulU(r + 1, r + 1) - x) < Abs(MulU(r, r) - x) THEN r + 1 ELSE r

\* x^n for an integer n >= 0, by repeated multiplication.
RECURSIVE PowNat(_, _)
PowNat(x, n) == IF n = 0 THEN SCALE ELSE Mul(x, PowNat(x, n - 1))

\* x^n for an integer n.
PowInt(x, n) == IF n < 0 THEN Div(SCALE, PowNat(x, 0 - n)) ELSE PowNat(x, n)

\* Math.pow for a base x > 0: exact products and roots for an exponent
\* that is an integer or half an integer, exp(y * ln x) otherwise.
Pow(x, y) ==
  IF ~IsNum(x) \/ ~IsNum(y) THEN NaN
  ELSE IF y % SCALE = 0 THEN PowInt(x, y \div SCALE)
  ELSE IF (2 * y) % SCALE = 0 THEN PowInt(Sqrt(x), (2 * y) \div SCALE)
  ELSE Exp(Mul(y, Ln(x)))

\* n / 100 as a number: the literals of the program have two decimals.
Hundredths(n) == n * (SCALE \div 100)

\* ------------------------------------------------------------------------
\* src/index.ts: types and constants
\* ------------------------------------------------------------------------

AGAIN == 1

HARD == 2

GOOD == 3

EASY == 4

Grade == {AGAIN, HARD, GOOD, EASY}

\* DECAY as FSRS-4 had it: the power of the forgetting curve before 4.5.
DECAY_v4 == 0 - Hundredths(100)

DECAY == 0 - Hundredths(50)

FACTOR == Div(19 * SCALE, 81 * SCALE)

DEFAULT_W ==
  << Hundredths(40), Hundredths(60), Hundredths(240), Hundredths(580),
     Hundredths(493), Hundredths(94), Hundredths(86), Hundredths(1),
     Hundredths(149), Hundredths(14), Hundredths(94), Hundredths(218),
     Hundredths(5), Hundredths(34), Hundredths(126), Hundredths(29),
     Hundredths(261) >>

\* A JavaScript array value and the two values that are no object.
Array(items) == [t |-> "array", v |-> items]

UndefinedRef == [t |-> "undefined", v |-> <<>>]

NullRef == [t |-> "null", v |-> <<>>]

\* An argument object of createDeck, and the absent argument.
ParamsObject(R, w) == [t |-> "object", requestedRetentionRate |-> R, w |-> w]

NoArgument == [t |-> "absent", requestedRetentionRate |-> Undefined, w |-> UndefinedRef]

DEFAULT_PARAMS == ParamsObject(Hundredths(90), Array(DEFAULT_W))

\* The test of `??` instead of `||`: only undefined (and null) give way.
NotNullish(x) == x # Undefined

\* JavaScript truthiness of a number (0, NaN and undefined are falsy) and of
\* an array reference (every array is truthy, the empty one too).
Truthy(x) == IsNum(x) /\ x # 0

TruthyRef(x) == x.t = "array"

\* w[i] of the program, with JavaScript's zero-based index: reading outside
\* the array yields undefined.
At(w, i) == IF i \in 0..(Len(w) - 1) THEN w[i + 1] ELSE Undefined

\* ------------------------------------------------------------------------
\* src/index.ts: createDeck and the functions closed over w
\* ------------------------------------------------------------------------

\* The default parameter value of createDeck.
DefaultArgument(params) == IF params.t = "absent" THEN DEFAULT_PARAMS ELSE params

\* const w = params.w || DEFAULT_PARAMS.w
BoundW(params) ==
  LET p == DefaultArgument(params)
  IN  IF TruthyRef(p.w) THEN p.w.v ELSE DEFAULT_PARAMS.w.v

\* const requestedRetentionRate = params.requestedRetentionRate || ...
BoundRetention(params) ==
  LET p == DefaultArgument(params)
  IN  IF Truthy(p.requestedRetentionRate) THEN p.requestedRetentionRate
      ELSE DEFAULT_PARAMS.requestedRetentionRate

retrievability(t, S) == Pow(Add(SCALE, Mul(FACTOR, Div(t, S))), DECAY)

\* nextInterval with the division by FACTOR turned into a multiplication.
nextIntervalTimesFactor(R, S) ==
  Mul(Mul(S, FACTOR), Sub(Pow(R, Div(SCALE, DECAY)), SCALE))

\* nextInterval with the sign of the exponent lost: R^(-1/DECAY).
nextIntervalPositiveExponent(R, S) ==
  Mul(Div(S, FACTOR), Sub(Pow(R, Sub(0, Div(SCALE, DECAY))), SCALE))

nextInterval(R, S) ==
  Mul(Div(S, FACTOR), Sub(Pow(R, Div(SCALE, DECAY)), SCALE))

initialStability(w, G) == At(w, G - 1)

\* The clamp without its lower end.
ClampAbove(val) == MathMin(10 * SCALE, val)

\* Math.max(1, Math.min(10, val))
Clamp(val) == MathMax(1 * SCALE, MathMin(10 * SCALE, val))

initialDifficulty(w, G) ==
  Clamp(Add(At(w, 4), Mul((G - 3) * SCALE, At(w, 5))))

\* nextDifficulty without the weight 1 - w[7] on the grade-adjusted term.
nextDifficultyUnweighted(w, D, G) ==
  Clamp(Add(Mul(At(w, 7), initialDifficulty(w, 3)),
            Sub(D, Mul(At(w, 6), (G - 3) * SCALE))))

\* nextDifficulty with the grade term added instead of subtracted.
nextDifficultyGradeSignFlipped(w, D, G) ==
  Clamp(Add(Mul(At(w, 7), initialDifficulty(w, 3)),
            Mul(Sub(SCALE, At(w, 7)),
                Add(D, Mul(At(w, 6), (G - 3) * SCALE)))))

nextDifficulty(w, D, G) ==
  Clamp(Add(Mul(At(w, 7), initialDifficulty(w, 3)),
            Mul(Sub(SCALE, At(w, 7)),
                Sub(D, Mul(At(w, 6), (G - 3) * SCALE)))))

hard_penalty(w, g) == IF HARD = g THEN At(w, 15) ELSE SCALE

\* easy_bound that never applies w[16].
easy_boundNever(w, g) == SCALE

easy_bound(w, g) == IF EASY = g THEN At(w, 16) ELSE SCALE

\* The recall formula with exp((1 - r) * w[10]) not reduced by 1.
nextStabilityAfterRecallNoMinusOne(w, d, s, r, g) ==
  Mul(s,
      Add(SCALE,
          Mul(Mul(Mul(Mul(Mul(Exp(At(w, 8)), Sub(11 * SCALE, d)),
                          Pow(s, Sub(0, At(w, 9)))),
                      Exp(Mul(Sub(SCALE, r), At(w, 10)))),
                  hard_penalty(w, g)),
              easy_bound(w, g))))

nextStabilityAfterRecall(w, d, s, r, g) ==
  Mul(s,
      Add(SCALE,
          Mul(Mul(Mul(Mul(Mul(Exp(At(w, 8)), Sub(11 * SCALE, d)),
                          Pow(s, Sub(0, At(w, 9)))),
                      Sub(Exp(Mul(Sub(SCALE, r), At(w, 10))), SCALE)),
                  hard_penalty(w, g)),
              easy_bound(w, g))))

\* The forgetting formula with s in place of s + 1.
nextStabilityAfterForgettingNoShift(w, d, s, r) ==
  Mul(Mul(Mul(At(w, 11), Pow(d, Sub(0, At(w, 12)))),
          Sub(Pow(s, At(w, 13)), SCALE)),
      Exp(Mul(Sub(SCALE, r), At(w, 14))))

\* The forgetting formula without its retrievability factor.
nextStabilityAfterForgettingNoR(w, d, s, r) ==
  Mul(Mul(At(w, 11), Pow(d, Sub(0, At(w, 12)))),
      Sub(Pow(Add(s, SCALE), At(w, 13)), SCALE))

nextStabilityAfterForgetting(w, d, s, r) ==
  Mul(Mul(Mul(At(w, 11), Pow(d, Sub(0, At(w, 12)))),
          Sub(Pow(Add(s, SCALE), At(w, 13)), SCALE)),
      Exp(Mul(Sub(SCALE, r), At(w, 14))))

Card(D, S, I) == [D |-> D, S |-> S, I |-> I]

newCard(w, R, grade) ==
  LET D == initialDifficulty(w, grade)
      S == initialStability(w, grade)
      I == nextInterval(R, S)
  IN  Card(D, S, I)

\* The branch condition taking HARD for a lapse too.
TakesForgettingBelowGood(grade) == grade <= HARD

\* if (grade === Grade.AGAIN)
TakesForgetting(grade) == grade = AGAIN

\* gradeCard feeding the card's old difficulty to the stability formulas.
gradeCardLocalsOldDifficulty(w, card, daysSinceReview, grade) ==
  LET currentRetrievability == retrievability(daysSinceReview, card.S)
      D == nextDifficulty(w, card.D, grade)
      forgetting == TakesForgetting(grade)
      S == IF forgetting
           THEN nextStabilityAfterForgetting(w, card.D, card.S, currentRetrievability)
           ELSE nextStabilityAfterRecall(w, card.D, card.S, currentRetrievability, grade)
  IN  [ currentRetrievability |-> currentRetrievability,
        D |-> D,
        S |-> S,
        branch |-> IF forgetting THEN "forgetting" ELSE "recall",
        hard_penalty |-> IF forgetting THEN Undefined ELSE hard_penalty(w, grade),
        easy_bound |-> IF forgetting THEN Undefined ELSE easy_bound(w, grade) ]

\* gradeCard up to the new stability: its locals, the branch it took, and
\* the locals of nextStabilityAfterRecall when that was called (undefined
\* when it was not).
gradeCardLocals(w, card, daysSinceReview, grade) ==
  LET currentRetrievability == retrievability(daysSinceReview, card.S)
      D == nextDifficulty(w, card.D, grade)
      forgetting == TakesForgetting(grade)
      S == IF forgetting
           THEN nextStabilityAfterForgetting(w, D, card.S, currentRetrievability)
           ELSE nextStabilityAfterRecall(w, D, card.S, currentRetrievability, grade)
  IN  [ currentRetrievability |-> currentRetrievability,
        D |-> D,
        S |-> S,
        branch |-> IF forgetting THEN "forgetting" ELSE "recall",
        hard_penalty |-> IF forgetting THEN Undefined ELSE hard_penalty(w, grade),
        easy_bound |-> IF forgetting THEN Undefined ELSE easy_bound(w, grade) ]

\* gradeCard writing its results into the argument object.
ArgumentOverwritten(card, returned) == returned

\* The argument object as gradeCard leaves it: the function assigns to no
\* field of it.
ArgumentAfter(card, returned) == card

\* The whole activation of gradeCard: the locals, the argument object as
\* the call leaves it, the returned card, and whether the returned object
\* is one the call allocated.
gradeCard(w, R, card, daysSinceReview, grade) ==
  LET l == gradeCardLocals(w, card, daysSinceReview, grade)
      I == nextInterval(R, l.S)
      returned == Card(l.D, l.S, I)
  IN  [ locals |-> l,
        card |-> ArgumentAfter(card, returned),
        returned |-> returned,
        returnedIsNew |-> TRUE ]   \* `return { D, S, I }` allocates

\* ------------------------------------------------------------------------
\* State
\* ------------------------------------------------------------------------

VARIABLES
  params,                  \* the argument createDeck was called with
  w,                       \* the deck's bound weight vector
  requestedRetentionRate,  \* the deck's bound target retention
  card,                    \* the caller's card: the last one returned
  call,                    \* the last call on the deck and what it did
  n,                       \* gradeCard calls since the card was created
  results                  \* src/test.ts: the rows pushed so far

vars == <<params, w, requestedRetentionRate, card, call, n, results>>

\* No card yet.
NoCard == Card(Undefined, Undefined, Undefined)

NoCall ==
  [ op |-> "none", grade |-> 0, daysSinceReview |-> Undefined,
    before |-> NoCard, card |-> NoCard,
    currentRetrievability |-> Undefined, branch |-> "none",
    hard_penalty |-> Undefined, easy_bound |-> Undefined,
    returnedIsNew |-> FALSE, completion |-> "none" ]

\* ------------------------------------------------------------------------
\* Bounds
\* ------------------------------------------------------------------------

\* gradeCard calls on one card.
MaxReviews == 2

\* Only gradings that leave a stability of at most this many days are
\* explored, which keeps every number the program computes below the
\* largest one the arithmetic holds (2^31 / SCALE).
MaxStabilityDays == 70

\* ------------------------------------------------------------------------
\* Callers
\* ------------------------------------------------------------------------

\* A weight vector a caller supplies instead of the default one: steeper
\* difficulty coefficients, so that both ends of the clamp are met.
CUSTOM_W ==
  [DEFAULT_W EXCEPT ![5] = Hundredths(500), ![6] = Hundredths(300),
                    ![7] = Hundredths(200)]

\* The arguments of a caller that respects the declared types and ranges:
\* none, or a retention in (0, 1] (or the falsy 0) with a 17-value vector.
TypedParams ==
  { NoArgument,
    ParamsObject(0, Array(DEFAULT_W)),
    ParamsObject(Hundredths(80), Array(DEFAULT_W)),
    ParamsObject(Hundredths(100), Array(DEFAULT_W)),
    ParamsObject(Hundredths(90), Array(CUSTOM_W)) }

\* The elapsed days a caller reports besides the scheduled interval: the
\* same day, or the README's two days.
OffSchedule == {0, 2 * SCALE}

\* What a JavaScript caller, unchecked by the compiler, may pass: fields
\* left undefined or null, falsy numbers, an empty array, any small integer
\* as a grade.
JsParams ==
  { NoArgument,
    ParamsObject(Undefined, UndefinedRef),
    ParamsObject(NaN, NullRef),
    ParamsObject(0, Array(<<>>)),
    ParamsObject(Hundredths(80), Array(CUSTOM_W)),
    ParamsObject(Hundredths(90), Array(DEFAULT_W)) }

JsGrades == 0..5

\* The cards a caller keeps in its own storage and hands back to
\* gradeCard: any difficulty in [1, 10], here the whole numbers, and a
\* positive stability, with the interval the deck gave for it.
StoredDifficulties == { D * SCALE : D \in 1..10 }

StoredStabilities == { Hundredths(40), Hundredths(240), 30 * SCALE }

StoredCards(R) ==
  { Card(D, S, nextInterval(R, S)) :
      D \in StoredDifficulties, S \in StoredStabilities }

\* src/test.ts: the length of its `ratings` array.
NRatings == 7

InRange(S) == IsNum(S) => S <= MaxStabilityDays * SCALE

\* ------------------------------------------------------------------------
\* Operations
\* ------------------------------------------------------------------------

\* createDeck(params)
CreateDeck(paramSet) ==
  /\ params \in paramSet
  /\ w = BoundW(params)
  /\ requestedRetentionRate = BoundRetention(params)
  /\ card = NoCard
  /\ call = NoCall
  /\ n = 0
  /\ results = <<>>

\* deck.newCard(grade)
NewCard(grades) ==
  \E grade \in grades :
    /\ card' = newCard(w, requestedRetentionRate, grade)
    /\ call' = [NoCall EXCEPT !.op = "newCard", !.grade = grade,
                               !.returnedIsNew = TRUE,
                               !.completion = "returned"]
    /\ n' = 0
    /\ UNCHANGED <<params, w, requestedRetentionRate, results>>

\* The record of a gradeCard call, from its activation. Neither newCard nor
\* gradeCard has a throw statement, and reading a field of the card or an
\* element of w never throws: every call completes by returning.
GradeCall(grade, daysSinceReview, before, f) ==
  [ op |-> "gradeCard", grade |-> grade,
    daysSinceReview |-> daysSinceReview,
    before |-> before, card |-> f.card,
    currentRetrievability |-> f.locals.currentRetrievability,
    branch |-> f.locals.branch,
    hard_penalty |-> f.locals.hard_penalty,
    easy_bound |-> f.locals.easy_bound,
    returnedIsNew |-> f.returnedIsNew,
    completion |-> "returned" ]

\* deck.gradeCard(card, daysSinceReview, grade) on the caller's card
GradeCard(grades, offSchedule) ==
  /\ call.op # "none"
  /\ n < MaxReviews
  /\ \E grade \in grades, daysSinceReview \in {card.I} \cup offSchedule :
       /\ InRange(gradeCardLocals(w, card, daysSinceReview, grade).S)
       /\ LET f == gradeCard(w, requestedRetentionRate, card, daysSinceReview, grade)
          IN  /\ card' = f.returned
              /\ call' = GradeCall(grade, daysSinceReview, card, f)
              /\ n' = n + 1
  /\ UNCHANGED <<params, w, requestedRetentionRate, results>>

\* The caller reads a card back from its storage, to grade it next.
LoadCard ==
  /\ call.op = "none"
  /\ card' \in StoredCards(requestedRetentionRate)
  /\ call' = [NoCall EXCEPT !.op = "load"]
  /\ n' = 0
  /\ UNCHANGED <<params, w, requestedRetentionRate, results>>

\* src/test.ts: a row of `results`. The interval is pushed as the string
\* card.I + "d": the number and its suffix.
Row(index, rating, c) ==
  [ Step |-> index + 1, Rating |-> rating, Difficulty |-> c.D,
    Stability |-> c.S, Interval |-> <<c.I, "d">> ]

\* src/test.ts: `let card = newCard(ratings[0])` and the callback's first
\* run, which pushes the row of that card. The ratings are any grades.
TestFirst ==
  /\ results = <<>>
  /\ \E rating \in Grade :
       LET c == newCard(w, requestedRetentionRate, rating)
       IN  /\ card' = c
           /\ call' = [NoCall EXCEPT !.op = "newCard", !.grade = rating,
                                      !.returnedIsNew = TRUE,
                                      !.completion = "returned"]
           /\ results' = <<Row(0, rating, c)>>
  /\ n' = 0
  /\ UNCHANGED <<params, w, requestedRetentionRate>>

\* src/test.ts: a later run of the callback: the card is graded after
\* exactly its interval, and the row of the new card is pushed.
TestEach ==
  /\ results # <<>>
  /\ Len(results) < NRatings
  /\ \E rating \in Grade :
       LET daysSinceReview == card.I
       IN  /\ InRange(gradeCardLocals(w, card, daysSinceReview, rating).S)
           /\ LET f == gradeCard(w, requestedRetentionRate, card, daysSinceReview, rating)
              IN  /\ card' = f.returned
                  /\ call' = GradeCall(rating, daysSinceReview, card, f)
                  /\ results' = Append(results, Row(Len(results), rating, f.returned))
  /\ n' = n + 1
  /\ UNCHANGED <<params, w, requestedRetentionRate>>

\* ------------------------------------------------------------------------
\* Specifications
\* ------------------------------------------------------------------------

\* A typed caller of one deck.
Init == CreateDeck(TypedParams)

Next == NewCard(Grade) \/ GradeCard(Grade, OffSchedule)

Spec == Init /\ [][Next]_vars

\* src/test.ts on the default deck.
TestInit == CreateDeck({NoArgument})

TestNext == TestFirst \/ TestEach

TestSpec == TestInit /\ [][TestNext]_vars

\* An unchecked JavaScript caller of one deck, reviewing on schedule.
JsInit == CreateDeck(JsParams)

JsNext == NewCard(JsGrades) \/ GradeCard(JsGrades, {})

JsSpec == JsInit /\ [][JsNext]_vars

\* A caller of the default deck that grades cards from its storage.
StoreInit == CreateDeck({NoArgument})

StoreNext == LoadCard \/ GradeCard(Grade, OffSchedule)

StoreSpec == StoreInit /\ [][StoreNext]_vars

\* ------------------------------------------------------------------------
\* Properties
\* ------------------------------------------------------------------------

\* Two numbers that differ by at most tol.
Close(a, b, tol) == IsNum(a) /\ IsNum(b) /\ Abs(a - b) <= tol

\* One unit in the sixth decimal: what an identity between reals is held
\* to in this arithmetic.
Ulp == SCALE \div 10^6

\* x rounded to hundredths, as toFixed(2) prints it.
ToFixed2(x) == (x + (SCALE \div 200)) \div (SCALE \div 100)

Returned == call.op # "none"

Graded == call.op = "gradeCard"

DefaultDeck == w = DEFAULT_W /\ requestedRetentionRate = Hundredths(90)

\* C1: on a deck bound to a retention R in (0, 1], every card returned by
\* newCard or gradeCard for a grade in 1..4 has the interval that hits the
\* target: I = nextInterval(R, S), and retrievability(I, S) is R (to one
\* unit in the sixth decimal).
C1_IntervalHitsRetention ==
  Returned =>
    /\ card.I = nextInterval(requestedRetentionRate, card.S)
    /\ Close(retrievability(card.I, card.S), requestedRetentionRate, Ulp)

\* A graded card on a deck whose retention is not the default, so that
\* its interval is not its stability.
C1_Witness ==
  /\ Graded
  /\ requestedRetentionRate = Hundredths(80)
  /\ card.I > card.S

\* C2: every card returned after newCard and any gradeCard calls with
\* grades in 1..4 and any elapsed days has 1 <= D <= 10.
C2_DifficultyInRange ==
  Returned => (1 * SCALE <= card.D /\ card.D <= 10 * SCALE)

\* A card graded AGAIN at difficulty 10 and still at 10 (11.93 before the
\* clamp).
C2_Witness ==
  /\ Graded
  /\ call.grade = AGAIN
  /\ call.before.D = 10 * SCALE
  /\ card.D = 10 * SCALE

\* C3: with the default weight vector every returned card has S > 0,
\* after the recall transition and after the forgetting transition.
C3_StabilityPositive ==
  (Returned /\ w = DEFAULT_W) => card.S > 0

\* A lapse on the default weights that cut the stability and left it
\* positive.
C3_Witness ==
  /\ Graded
  /\ w = DEFAULT_W
  /\ call.branch = "forgetting"
  /\ 0 < card.S
  /\ card.S < call.before.S

\* C4: gradeCard takes the forgetting formula exactly for AGAIN and the
\* recall formula exactly for HARD, GOOD and EASY; the recall formula
\* multiplies by w[15] only for HARD and by w[16] only for EASY.
C4_BranchByGrade ==
  Graded =>
    /\ (call.grade = AGAIN) <=> (call.branch = "forgetting")
    /\ (call.grade \in {HARD, GOOD, EASY}) <=> (call.branch = "recall")
    /\ call.branch = "forgetting" =>
         /\ call.hard_penalty = Undefined
         /\ call.easy_bound = Undefined
    /\ call.branch = "recall" =>
         /\ call.hard_penalty = (IF call.grade = HARD THEN At(w, 15) ELSE SCALE)
         /\ call.easy_bound = (IF call.grade = EASY THEN At(w, 16) ELSE SCALE)

\* A HARD grading that went through the recall formula with the penalty.
C4_Witness ==
  /\ Graded
  /\ call.grade = HARD
  /\ call.branch = "recall"
  /\ call.hard_penalty = At(w, 15)
  /\ call.easy_bound = SCALE

\* C5: gradeCard leaves its argument as it was and returns an object it
\* allocated; no call changes the deck's w or requestedRetentionRate.
C5_ArgumentAndDeckUnchanged ==
  [][ /\ w' = w
      /\ requestedRetentionRate' = requestedRetentionRate
      /\ call'.op = "gradeCard" =>
           /\ call'.before = card
           /\ call'.card = card
           /\ call'.returnedIsNew ]_vars

\* A grading whose returned card differs from the argument, the argument
\* being as before.
C5_Witness ==
  /\ Graded
  /\ call.card = call.before
  /\ card # call.before
  /\ call.returnedIsNew

\* C6: for every stability S met, retrievability(S, S) = 0.9 and
\* nextInterval(0.9, S) = S (to one unit in the sixth decimal); so on a
\* deck with the default retention every returned card has I = S.
C6_StabilityIsTheNinetyPercentInterval ==
  /\ retrievability(1 * SCALE, 1 * SCALE) = Hundredths(90)
  /\ Close(nextInterval(Hundredths(90), 2 * SCALE), 2 * SCALE, Ulp)
  /\ (Returned /\ card.S > 0) =>
       /\ Close(retrievability(card.S, card.S), Hundredths(90), Ulp)
       /\ Close(nextInterval(Hundredths(90), card.S), card.S, Ulp)
       /\ requestedRetentionRate = Hundredths(90) => Close(card.I, card.S, Ulp)

\* A graded card on a default-retention deck, its stability no round
\* number.
C6_Witness ==
  /\ Graded
  /\ requestedRetentionRate = Hundredths(90)
  /\ card.S % SCALE # 0
  /\ card.S > 10 * SCALE
\* The values JavaScript takes for false in `x || y`, and the empty array,
\* which it does not.
FalsyNumber(x) == x \in {0, NaN, Undefined}

NoObject(x) == x.t \in {"undefined", "null"}

EmptyArray(x) == x.t = "array" /\ x.v = <<>>

\* C7: createDeck() binds 0.9 and the default vector; a field that is
\* present but falsy (undefined, null, 0, NaN) is replaced by its default;
\* every other supplied value is bound as given, an empty array included.
C7_DefaultsForFalsyFields ==
  /\ params.t = "absent" =>
       /\ requestedRetentionRate = Hundredths(90)
       /\ w = DEFAULT_W
  /\ params.t = "object" =>
       /\ w = (IF NoObject(params.w) THEN DEFAULT_W ELSE params.w.v)
       /\ requestedRetentionRate =
            (IF FalsyNumber(params.requestedRetentionRate) THEN Hundredths(90)
             ELSE params.requestedRetentionRate)

\* C7 as stated: an empty field counts as falsy, so the default replaces
\* an empty w too.
C7_DefaultsForFalsyOrEmptyFields ==
  /\ params.t = "absent" =>
       /\ requestedRetentionRate = Hundredths(90)
       /\ w = DEFAULT_W
  /\ params.t = "object" =>
       /\ w = (IF NoObject(params.w) \/ EmptyArray(params.w) THEN DEFAULT_W
               ELSE params.w.v)
       /\ requestedRetentionRate =
            (IF FalsyNumber(params.requestedRetentionRate) THEN Hundredths(90)
             ELSE params.requestedRetentionRate)

\* A deck created with retention 0 and an empty w: the retention is the
\* default, the vector is the empty one.
C7_Witness ==
  /\ params.t = "object"
  /\ params.requestedRetentionRate = 0
  /\ EmptyArray(params.w)
  /\ requestedRetentionRate = Hundredths(90)
  /\ w = <<>>

\* C8: newCard or gradeCard called with a grade outside 1..4 raises
\* InvalidGrade instead of returning a card.
C8_InvalidGradeRaises ==
  (Returned /\ call.grade \notin Grade) => call.completion = "InvalidGrade"

\* The card newCard(GOOD) returns on the default deck.
FirstGoodCard == Card(Hundredths(493), Hundredths(240), Hundredths(240))

\* A first grading of newCard(GOOD)'s card on the default deck, graded
\* EASY after `days`.
EasyAfter(days) ==
  /\ DefaultDeck
  /\ Graded
  /\ n = 1
  /\ call.before.D = FirstGoodCard.D
  /\ call.before.S = FirstGoodCard.S
  /\ call.grade = EASY
  /\ call.daysSinceReview = days

FirstGoodAsDocumented ==
  (DefaultDeck /\ call.op = "newCard" /\ call.grade = GOOD) =>
    /\ card.D = FirstGoodCard.D
    /\ card.S = FirstGoodCard.S
    /\ ToFixed2(card.I) = 240

\* C9: on the default deck newCard(GOOD) yields D = 4.93, S = 2.4 and
\* I = 2.40; grading that card EASY after 2 days (the README's example)
\* yields I = 16.63 to two decimals, and after 2.4 days I = 19.17.
C9_ReferenceExample ==
  /\ FirstGoodAsDocumented
  /\ EasyAfter(2 * SCALE) => ToFixed2(card.I) = 1663
  /\ EasyAfter(Hundredths(240)) => ToFixed2(card.I) = 1917

\* C9 as stated: grading that card EASY after 2.4 days yields I = 16.63.
C9_ReferenceExampleAfterInterval ==
  /\ FirstGoodAsDocumented
  /\ EasyAfter(Hundredths(240)) => ToFixed2(card.I) = 1663

\* The README's call has been made and returned 16.63.
C9_Witness ==
  /\ EasyAfter(2 * SCALE)
  /\ ToFixed2(card.I) = 1663

\* n / 10^6 as a number.
Millionths(x) == x * (SCALE \div 10^6)

\* src/test.ts: the ratings of the smoke test and the table in its comment
\* (the last difficulty, 6.59891428, to six decimals).
TestRatings == <<GOOD, GOOD, GOOD, GOOD, AGAIN, GOOD, GOOD>>

ExpectedStability ==
  << Millionths(2400000), Millionths(8036000), Millionths(23970000),
     Millionths(64755000), Millionths(7087000), Millionths(17417000),
     Millionths(39886000) >>

ExpectedDifficulty ==
  << Millionths(4930000), Millionths(4930000), Millionths(4930000),
     Millionths(4930000), Millionths(6632800), Millionths(6615772),
     Millionths(6598914) >>

FollowsTestRatings(i) ==
  /\ i <= Len(results)
  /\ \A j \in 1..i : results[j].Rating = TestRatings[j]

\* C10: on the default deck, newCard(GOOD) followed by gradings GOOD,
\* GOOD, GOOD, AGAIN, GOOD, GOOD, each after the previous card's interval,
\* gives the stabilities 2.4, 8.036, 23.970, 64.755, 7.087, 17.417, 39.886
\* (within 0.01) and the difficulties 4.93, 4.93, 4.93, 4.93, 6.6328,
\* 6.615772, 6.59891428.
C10_ReferenceTrace ==
  /\ Graded => call.daysSinceReview = call.before.I
  /\ \A i \in 1..Len(results) :
       FollowsTestRatings(i) =>
         /\ results[i].Step = i
         /\ Close(results[i].Stability, ExpectedStability[i], SCALE \div 100)
         /\ Close(results[i].Difficulty, ExpectedDifficulty[i], Ulp)

\* The smoke test has run all seven ratings of its array.
C10_Witness ==
  /\ Len(results) = NRatings
  /\ FollowsTestRatings(NRatings)

\* Target retentions in (0, 1], the deck's own among them.
RetentionGrid ==
  { Hundredths(50), Hundredths(70), Hundredths(80), Hundredths(90),
    Hundredths(95), Hundredths(100) }

\* The interval the last call would have returned on a deck that differs
\* only in its target retention R: same weights, same card, same elapsed
\* days, same grade.
IntervalOnDeck(R) ==
  IF call.op = "newCard"
  THEN newCard(w, R, call.grade).I
  ELSE gradeCard(w, R, call.before, call.daysSinceReview, call.grade).returned.I

\* C11: for the stability S > 0 of any returned card, nextInterval(R, S) is
\* at least 0 for every R in (0, 1], is 0 exactly at R = 1, and is strictly
\* decreasing in R; so for the same card, elapsed days and grade a deck
\* with a lower target retention returns a longer interval than this deck,
\* and one with a higher target a shorter interval.
C11_IntervalDecreasesWithRetention ==
  Returned =>
    LET interval == [R \in RetentionGrid |-> nextInterval(R, card.S)]
        onDeck == [R \in RetentionGrid |-> IntervalOnDeck(R)]
    IN  /\ \A R \in RetentionGrid :
             /\ interval[R] >= 0
             /\ (interval[R] = 0) <=> (R = SCALE)
        /\ \A R1, R2 \in RetentionGrid :
             R1 < R2 => interval[R1] > interval[R2]
        /\ \A R \in RetentionGrid :
             /\ R < requestedRetentionRate => onDeck[R] > card.I
             /\ R > requestedRetentionRate => onDeck[R] < card.I

\* A graded card on the default deck, target 0.9: the deck with target
\* 0.8 would have returned a longer interval, the one with 0.95 a shorter
\* one, the one with 1 none at all.
C11_Witness ==
  /\ Graded
  /\ requestedRetentionRate = Hundredths(90)
  /\ card.S > 0
  /\ IntervalOnDeck(Hundredths(80)) > card.I
  /\ IntervalOnDeck(Hundredths(95)) < card.I
  /\ IntervalOnDeck(SCALE) = 0

\* The table of nextDifficulty in the self-test, in hundredths: one row
\* per grade, one column per difficulty 1..10.
DifficultyTable ==
  [ g \in Grade |->
      CASE g = AGAIN -> <<274, 373, 472, 571, 670, 769, 868, 967, 1000, 1000>>
        [] g = HARD  -> <<189, 288, 387, 486, 585, 684, 783, 882,  981, 1000>>
        [] g = GOOD  -> <<104, 203, 302, 401, 500, 599, 698, 797,  896,  995>>
        [] g = EASY  -> <<100, 118, 217, 316, 415, 514, 613, 712,  811,  910>> ]

\* The last call graded a card as it came from storage.
GradedStored == Graded /\ n = 1 /\ call.before.D \in StoredDifficulties

\* C12: with the default weights, for every whole difficulty D in 1..10
\* and every grade G, the difficulty gradeCard returns is
\* clamp(0.01 * 4.93 + 0.99 * (D - 0.86 * (G - 3)), 1, 10), rounded to two
\* decimals it is the entry of the table, and for a fixed D it does not
\* increase from one grade to the next in the order AGAIN, HARD, GOOD,
\* EASY.
C12_DifficultyTable ==
  GradedStored =>
    LET D == call.before.D
        G == call.grade
    IN  /\ card.D =
             Clamp(Add(Mul(Hundredths(1), Hundredths(493)),
                       Mul(Hundredths(99),
                           Sub(D, Mul(Hundredths(86), (G - 3) * SCALE)))))
        /\ ToFixed2(card.D) = DifficultyTable[G][D \div SCALE]
        /\ G < EASY => nextDifficulty(w, D, G + 1) <= card.D

\* The stored card of difficulty 10 graded EASY comes back with 9.10, and
\* the rating GOOD would have left it higher.
C12_Witness ==
  /\ GradedStored
  /\ call.before.D = 10 * SCALE
  /\ call.grade = EASY
  /\ ToFixed2(card.D) = 910
  /\ nextDifficulty(w, call.before.D, GOOD) > card.D

\* The stability formula of the branch the last call took, on the
\* arguments d, s, r.
StabilityFrom(d, s, r) ==
  IF call.branch = "forgetting"
  THEN nextStabilityAfterForgetting(w, d, s, r)
  ELSE nextStabilityAfterRecall(w, d, s, r, call.grade)

\* C13: within one gradeCard call the retrievability is computed from the
\* elapsed days and the stability of the card as it was passed in; the
\* returned difficulty is nextDifficulty of the old difficulty; and the
\* returned stability is the stability formula applied to the already
\* updated difficulty, the old stability and that retrievability.
C13_OrderOfEvaluation ==
  Graded =>
    /\ call.currentRetrievability =
         retrievability(call.daysSinceReview, call.before.S)
    /\ card.D = nextDifficulty(w, call.before.D, call.grade)
    /\ card.S = StabilityFrom(card.D, call.before.S, call.currentRetrievability)

\* A grading late enough and with a grade that changes the difficulty, on
\* either branch, such that the old difficulty, the new stability, or a
\* retrievability taken from the new stability would each have given
\* another result.
C13_Witness ==
  /\ Graded
  /\ call.daysSinceReview > 0
  /\ card.D # call.before.D
  /\ card.S # call.before.S
  /\ StabilityFrom(call.before.D, call.before.S, call.currentRetrievability) # card.S
  /\ StabilityFrom(card.D, card.S, call.currentRetrievability) # card.S
  /\ retrievability(call.daysSinceReview, card.S) # call.currentRetrievability

\* C14: on the default deck, for a card with D in [1, 10] and S > 0, any
\* elapsed days >= 0 and a grade HARD, GOOD or EASY, gradeCard returns a
\* stability that is at least the old one: greater when days have
\* elapsed, the same when none has.
C14_RecallNeverLowersStability ==
  (Graded /\ call.grade \in {HARD, GOOD, EASY}) =>
    /\ 1 * SCALE <= call.before.D /\ call.before.D <= 10 * SCALE
    /\ call.before.S > 0
    /\ call.daysSinceReview >= 0
    /\ card.S >= call.before.S
    /\ call.daysSinceReview > 0 => card.S > call.before.S
    /\ call.daysSinceReview = 0 => card.S = call.before.S

\* The slowest growth: a second recall, rated HARD at the highest
\* difficulty after some days, still raises the stability.
C14_Witness ==
  /\ Graded
  /\ n = 2
  /\ call.grade = HARD
  /\ card.D = 10 * SCALE
  /\ call.daysSinceReview > 0
  /\ card.S > call.before.S

\* x lies between a and b, the ends included.
Between(x, a, b) == (a <= x /\ x <= b) \/ (b <= x /\ x <= a)

\* C15: on a deck with 0 <= w[7] <= 1 and w[4] in [1, 10], grading GOOD
\* leaves a difficulty equal to w[4] = initialDifficulty(GOOD) where it
\* is, and moves any other difficulty toward w[4] without crossing it: the
\* new difficulty lies between the old one and w[4] and is closer to w[4].
C15_GoodRevertsToInitialDifficulty ==
  (Graded /\ call.grade = GOOD) =>
    LET target == At(w, 4)
        old == call.before.D
    IN  /\ 0 <= At(w, 7) /\ At(w, 7) <= SCALE
        /\ 1 * SCALE <= target /\ target <= 10 * SCALE
        /\ target = initialDifficulty(w, GOOD)
        /\ old = target => card.D = target
        /\ Between(card.D, old, target)
        /\ old # target => Abs(card.D - target) < Abs(old - target)

\* The card of newCard(GOOD) after its second GOOD grading still has the
\* difficulty w[4].
C15_Witness ==
  /\ Graded
  /\ n = 2
  /\ call.grade = GOOD
  /\ call.before.D = At(w, 4)
  /\ card.D = At(w, 4)
====
